---- MODULE Spec2Model ----
(***************************************************************************)
(* State machine of the ConfigurationManagement page                       *)
(* (webui/src/pages/ConfigurationManagement.tsx).                           *)
(*                                                                         *)
(* The variables are the component's useState cells plus the HTTP requests *)
(* that are in flight.  One action is one React batch: an event handler or *)
(* the continuation of an awaited request, the commit of the state it set, *)
(* and the useEffect callbacks whose dependencies changed in that commit   *)
(* (React 18 batches every setState of one handler or continuation, then   *)
(* runs the effects of the committed render).                              *)
(***************************************************************************)
EXTENDS Bags, FiniteSets, Integers, Sequences, TLC

\* ------------------------------------------------------------------ bounds
\* at most this many HTTP requests are outstanding when the user starts one
MaxInFlight == 2
\* the backend returns name lists of at most this length
MaxListLen == 2

\* --------------------------------------------------------------- constants
\* resourceTypes[i].key, indexed from 0 as in the source
resourceTypes ==
  [i \in 0..4 |->
     CASE i = 0 -> "ClassPlans"
       [] i = 1 -> "TimeLayouts"
       [] i = 2 -> "SubjectsSource"
       [] i = 3 -> "DefaultSettingsSource"
       [] i = 4 -> "PolicySource"]

TabIndexes == DOMAIN resourceTypes

\* useState<string | null>(null)
NULL == "<null>"

\* configuration names the backend may return
Names == {"a", "b"}

\* the ordered, duplicate-free name lists of a names response
NameLists ==
  { l \in UNION { [1..n -> Names] : n \in 0..MaxListLen } :
      \A i, j \in 1..Len(l) : i # j => l[i] # l[j] }

\* JSON documents the backend may return for a configuration: objects, as the
\* sequence of their <<key, number>> members
JsonValues == { << <<"a", 1>> >> }

\* ---------------------------------------------------------- pure functions
RECURSIVE Members(_, _, _)
\* the members of an object, joined by sep, each written as "key":<colon>value
Members(obj, colon, sep) ==
  IF obj = << >> THEN ""
  ELSE "\"" \o obj[1][1] \o "\"" \o colon \o ToString(obj[1][2])
       \o (IF Len(obj) > 1 THEN sep \o Members(Tail(obj), colon, sep) ELSE "")

\* JSON.stringify(value, null, 2)
Stringify(value) ==
  IF value = << >> THEN "{}"
  ELSE "{\n  " \o Members(value, ": ", ",\n  ") \o "\n}"

\* JSON.stringify(value): the same document without white space
Compact(value) == "{" \o Members(value, ":", ",") \o "}"

\* texts the editor may hold: nothing, a fetched document, a text that is
\* not JSON
Contents == {""} \cup {"{"} \cup { Stringify(v) : v \in JsonValues }

\* texts the editor may hand to onSave
SaveContents == Contents \cup { Compact(v) : v \in JsonValues }

\* JSON.parse(content) returns normally
ParseOk(content) ==
  \E v \in JsonValues : content = Stringify(v) \/ content = Compact(v)

\* JSON.parse(content)
JsonParse(content) ==
  CHOOSE v \in JsonValues : content = Stringify(v) \/ content = Compact(v)

\* resourceType.slice(0, -1)
\* (variant: the key is used as it is)
Slice_None(resourceType) == resourceType

Slice(resourceType) == SubSeq(resourceType, 1, Len(resourceType) - 1)

NamesUrl(resourceType) == "/api/v1/panel/" \o resourceType
ContentUrl(resourceType, name) ==
  "/api/v1/client/" \o Slice(resourceType) \o "?name=" \o name
\* (variant: the save path is built as the content path is)
SaveUrl_Singular(resourceType, name) ==
  "/api/resources/" \o Slice(resourceType) \o "/" \o name

SaveUrl(resourceType, name) ==
  "/api/resources/" \o resourceType \o "/" \o name

\* the requests the three callers hand to apiClient
NamesRequest(resourceType) ==
  [kind |-> "names", resourceType |-> resourceType, name |-> NULL,
   url |-> NamesUrl(resourceType), body |-> << >>]
ContentRequest(resourceType, name) ==
  [kind |-> "content", resourceType |-> resourceType, name |-> name,
   url |-> ContentUrl(resourceType, name), body |-> << >>]
SaveRequest(resourceType, name, content) ==
  [kind |-> "save", resourceType |-> resourceType, name |-> name,
   url |-> SaveUrl(resourceType, name), body |-> JsonParse(content)]

\* ------------------------------------------------------------------- state
VARIABLES
  tabValue,            \* useState(0)
  configNames,         \* useState<string[]>([])
  selectedConfigName,  \* useState<string | null>(null)
  configContent,       \* useState<string>('')
  loading,             \* useState<boolean>(false)
  snackbarOpen,        \* useState(false)
  snackbarSeverity,    \* useState<'success' | 'error'>('success')
  isEditing,           \* useState(false)
  requests,            \* bag of the requests awaiting their response
  issued,              \* the requests handed to apiClient by the last step
  lastOp               \* the handler or continuation that ran last

view == <<tabValue, configNames, selectedConfigName, configContent, loading,
          snackbarOpen, snackbarSeverity, isEditing>>
vars == <<tabValue, configNames, selectedConfigName, configContent, loading,
          snackbarOpen, snackbarSeverity, isEditing,
          requests, issued, lastOp>>

\* resourceTypes[tabValue].key of the committed render
currentResourceType == resourceTypes[tabValue]

NoRequest == [kind |-> "none", resourceType |-> "", name |-> NULL,
              url |-> "", body |-> << >>]

\* record of the step that ran last: the handler or continuation, its
\* tab index, the request that settled, whether it settled (or the text
\* parsed) normally, the response's name list or document, the reason handed
\* to onClose, and whether a name click found the editor in edit mode
NoOp == [op |-> "mount", index |-> 0, req |-> NoRequest, ok |-> TRUE,
         list |-> << >>, data |-> << >>, reason |-> "", wasEditing |-> FALSE]

InFlight == BagCardinality(requests)

\* the elements of a name list, as rendered by configNames.map
Range(list) == { list[i] : i \in 1..Len(list) }

\* ----------------------------------------------------------------- effects
\* (variant: the names effect has an empty dependency list and runs on mount
\* only)
NamesEffectRuns_MountOnly(tab2) == FALSE

\* useEffect(..., [tabValue, currentResourceType]): runs after a commit in
\* which the active tab changed
NamesEffectRuns(tab2) == tab2 # tabValue

\* useEffect(..., [selectedConfigName, currentResourceType]): runs after a
\* commit in which the selection or the active tab changed
ContentEffectRuns(tab2, sel2) ==
  sel2 # selectedConfigName \/ tab2 # tabValue

\* if (selectedConfigName) fetchConfigContent(...) else setConfigContent('')
ContentEffectFetches(tab2, sel2) ==
  ContentEffectRuns(tab2, sel2) /\ sel2 # NULL

\* the requests the effects of a commit hand to apiClient
EffectRequests(tab2, sel2) ==
  (IF NamesEffectRuns(tab2)
     THEN {NamesRequest(resourceTypes[tab2])} ELSE {})
  \cup
  (IF ContentEffectFetches(tab2, sel2)
     THEN {ContentRequest(resourceTypes[tab2], sel2)} ELSE {})

\* One React batch: the handler (or continuation) has set tab2, names2, sel2,
\* content2 and loading2, has taken the bag `settled` out of flight and has
\* itself issued the requests `direct`; the render commits and the effects
\* whose dependencies changed run on the committed values.
Commit(tab2, names2, sel2, content2, loading2, settled, direct) ==
  /\ tabValue' = tab2
  /\ configNames' = names2
  /\ selectedConfigName' = sel2
  /\ configContent' =
       IF ContentEffectRuns(tab2, sel2) /\ sel2 = NULL THEN "" ELSE content2
  /\ loading' =
       IF EffectRequests(tab2, sel2) # {} THEN TRUE ELSE loading2
  /\ issued' = direct \cup EffectRequests(tab2, sel2)
  /\ requests' = (requests (-) settled) (+) SetToBag(issued')

\* (variant: a path leaves without releasing the flag)
Released_Kept == loading

\* finally { setLoading(false) }
Released == FALSE

\* (variant: every notification is raised with the default severity)
handleSnackbarOpen_Success(severity) ==
  /\ snackbarSeverity' = "success"
  /\ snackbarOpen' = TRUE

\* handleSnackbarOpen(message, severity); the message is a literal of the
\* call site that only the render reads, and is not kept
handleSnackbarOpen(severity) ==
  /\ snackbarSeverity' = severity
  /\ snackbarOpen' = TRUE

\* -------------------------------------------------------------------- Init
\* the state after mount: the first render has committed and both effects
\* have run once (fetchConfigNames for tab 0; no selection, so the content
\* effect only clears the content)
Init ==
  /\ tabValue = 0
  /\ configNames = << >>
  /\ selectedConfigName = NULL
  /\ configContent = ""
  /\ loading = TRUE
  /\ snackbarOpen = FALSE
  /\ snackbarSeverity = "success"
  /\ isEditing = FALSE
  /\ requests = SetToBag({NamesRequest(resourceTypes[0])})
  /\ issued = {NamesRequest(resourceTypes[0])}
  /\ lastOp = NoOp

\* ----------------------------------------------------------- user handlers
\* (variant: a tab change aborts the requests of the abandoned selection)
handleTabChange_Abort(newValue) ==
  /\ newValue # tabValue
  /\ InFlight < MaxInFlight
  /\ tabValue' = newValue
  /\ selectedConfigName' = NULL
  /\ configContent' = ""
  /\ loading' = TRUE
  /\ issued' = {NamesRequest(resourceTypes[newValue])}
  /\ requests' = SetToBag(issued')
  /\ UNCHANGED <<configNames, snackbarOpen, snackbarSeverity, isEditing>>
  /\ lastOp' = [NoOp EXCEPT !.op = "handleTabChange", !.index = newValue]

\* (variant: a tab change leaves the edit mode)
handleTabChange_ResetsEditing(newValue) ==
  /\ newValue # tabValue
  /\ InFlight < MaxInFlight
  /\ Commit(newValue, configNames, NULL, configContent, loading,
            EmptyBag, {})
  /\ isEditing' = FALSE
  /\ UNCHANGED <<snackbarOpen, snackbarSeverity>>
  /\ lastOp' = [NoOp EXCEPT !.op = "handleTabChange", !.index = newValue]

\* Tabs onChange: fired by a click on a tab other than the selected one
handleTabChange(newValue) ==
  /\ newValue # tabValue
  /\ InFlight < MaxInFlight
  /\ Commit(newValue, configNames, NULL, configContent, loading,
            EmptyBag, {})
  /\ UNCHANGED <<snackbarOpen, snackbarSeverity, isEditing>>
  /\ lastOp' = [NoOp EXCEPT !.op = "handleTabChange", !.index = newValue]

\* (variant: the list stays on screen while a request is outstanding)
NameListRendered_Always == TRUE

\* the name list is rendered, with one ListItem per name, unless loading
NameListRendered == ~loading

\* (variant: a name click leaves the edit mode alone)
EditingAfterClick_Keep == isEditing

\* setIsEditing(false) of handleConfigNameClick
EditingAfterClick == FALSE

\* ListItem onClick
handleConfigNameClick(name) ==
  /\ NameListRendered
  /\ name \in Range(configNames)
  /\ InFlight < MaxInFlight
  /\ Commit(tabValue, configNames, name, configContent, loading,
            EmptyBag, {})
  /\ isEditing' = EditingAfterClick
  /\ UNCHANGED <<snackbarOpen, snackbarSeverity>>
  /\ lastOp' = [NoOp EXCEPT !.op = "handleConfigNameClick",
                            !.wasEditing = isEditing]

\* the ConfigEditor is rendered unless loading && selectedConfigName
EditorRendered == ~(loading /\ selectedConfigName # NULL)

\* (variant: the guard on the selection is missing)
SaveReturnsEarly_Never == FALSE

\* if (!selectedConfigName) return
SaveReturnsEarly == selectedConfigName = NULL

\* ConfigEditor onSave
handleSaveConfig(content) ==
  /\ EditorRendered
  /\ lastOp' = [NoOp EXCEPT !.op = "handleSaveConfig",
                            !.ok = (selectedConfigName # NULL
                                      => ParseOk(content))]
  /\ IF SaveReturnsEarly
       THEN /\ issued' = {}
            /\ UNCHANGED <<view, requests>>
       ELSE IF ~ParseOk(content)
       THEN \* JSON.parse throws before apiClient.post is called
            /\ Commit(tabValue, configNames, selectedConfigName,
                      configContent, Released, EmptyBag, {})
            /\ handleSnackbarOpen("error")
            /\ UNCHANGED isEditing
       ELSE /\ InFlight < MaxInFlight
            /\ Commit(tabValue, configNames, selectedConfigName,
                      configContent, TRUE, EmptyBag,
                      {SaveRequest(currentResourceType, selectedConfigName,
                                   content)})
            /\ UNCHANGED <<snackbarOpen, snackbarSeverity,
                           isEditing>>

\* ------------------------------------------------------ ConfigEditor props
\* the ConfigEditor component accepts typing only in edit mode (isEditing is
\* true only while the user is modifying the content)
EditorAllowsTyping == isEditing

\* ConfigEditor onChange={setConfigContent}
EditorOnChange(text) ==
  /\ EditorRendered
  /\ EditorAllowsTyping
  /\ configContent' = text
  /\ issued' = {}
  /\ lastOp' = [NoOp EXCEPT !.op = "EditorOnChange"]
  /\ UNCHANGED <<tabValue, configNames, selectedConfigName, loading,
                 snackbarOpen, snackbarSeverity, isEditing,
                 requests>>

\* ConfigEditor setIsEditing={setIsEditing}: the user enters or leaves edit
\* mode
EditorSetIsEditing(value) ==
  /\ EditorRendered
  /\ isEditing' = value
  /\ issued' = {}
  /\ lastOp' = [NoOp EXCEPT !.op = "EditorSetIsEditing"]
  /\ UNCHANGED <<tabValue, configNames, selectedConfigName, configContent,
                 loading, snackbarOpen, snackbarSeverity,
                 requests>>

\* ------------------------------------------------------------ continuations
\* if (response.data.length > 0) setSelectedConfigName(response.data[0])
\* else setSelectedConfigName(null)
FirstName(list) == IF Len(list) > 0 THEN list[1] ELSE NULL

\* (variant: the catch block only raises the notification)
NamesOnError_Keep == [names |-> configNames, selected |-> selectedConfigName]

\* (variant: the catch block empties the list only)
NamesOnError_ListOnly == [names |-> << >>, selected |-> selectedConfigName]

\* the catch block of fetchConfigNames: setConfigNames([]),
\* setSelectedConfigName(null)
NamesOnError == [names |-> << >>, selected |-> NULL]

\* fetchConfigNames after its await: the response of request r arrives
SettleNames(r, ok, list) ==
  /\ BagIn(r, requests)
  /\ r.kind = "names"
  /\ lastOp' = [NoOp EXCEPT !.op = "SettleNames", !.req = r, !.ok = ok,
                            !.list = list]
  /\ UNCHANGED isEditing
  /\ IF ok
       THEN /\ Commit(tabValue, list, FirstName(list), configContent,
                      Released, SetToBag({r}), {})
            /\ UNCHANGED <<snackbarOpen, snackbarSeverity>>
       ELSE /\ list = << >>
            /\ Commit(tabValue, NamesOnError.names, NamesOnError.selected,
                      configContent, Released, SetToBag({r}), {})
            /\ handleSnackbarOpen("error")

\* (variant: the catch block leaves the content shown)
ContentOnError_Keep == configContent

\* the catch block of fetchConfigContent: setConfigContent('')
ContentOnError == ""

\* fetchConfigContent after its await
SettleContent(r, ok, data) ==
  /\ BagIn(r, requests)
  /\ r.kind = "content"
  /\ lastOp' = [NoOp EXCEPT !.op = "SettleContent", !.req = r, !.ok = ok,
                            !.data = IF ok THEN data ELSE << >>]
  /\ UNCHANGED isEditing
  /\ IF ok
       THEN /\ Commit(tabValue, configNames, selectedConfigName,
                      Stringify(data), Released, SetToBag({r}), {})
            /\ UNCHANGED <<snackbarOpen, snackbarSeverity>>
       ELSE /\ Commit(tabValue, configNames, selectedConfigName,
                      ContentOnError, Released, SetToBag({r}), {})
            /\ handleSnackbarOpen("error")

\* (variant: setIsEditing(false) sits in the finally block)
EditingAfterSave_Always(ok) == FALSE

\* setIsEditing(false) after the awaited post; the catch block leaves
\* isEditing alone
EditingAfterSave(ok) == IF ok THEN FALSE ELSE isEditing

\* handleSaveConfig after its await
SettleSave(r, ok) ==
  /\ BagIn(r, requests)
  /\ r.kind = "save"
  /\ lastOp' = [NoOp EXCEPT !.op = "SettleSave", !.req = r, !.ok = ok]
  /\ Commit(tabValue, configNames, selectedConfigName, configContent,
            Released, SetToBag({r}), {})
  /\ isEditing' = EditingAfterSave(ok)
  /\ handleSnackbarOpen(IF ok THEN "success" ELSE "error")

\* ---------------------------------------------------------------- snackbar
\* reasons MUI hands to onClose; the Alert's close button passes none
CloseReasons == {"clickaway", "timeout", "escapeKeyDown", "closeButton"}

\* (variant: a click away from the snackbar closes it as well)
OpenAfterClose_Never(reason) == FALSE

\* if (reason === 'clickaway') return;  setSnackbarOpen(false)
OpenAfterClose(reason) == reason = "clickaway"

\* Snackbar / Alert onClose, fired while the snackbar is open
handleSnackbarClose(reason) ==
  /\ snackbarOpen
  /\ snackbarOpen' = OpenAfterClose(reason)
  /\ issued' = {}
  /\ lastOp' = [NoOp EXCEPT !.op = "handleSnackbarClose", !.reason = reason]
  /\ UNCHANGED <<tabValue, configNames, selectedConfigName, configContent,
                 loading, snackbarSeverity, isEditing,
                 requests>>

\* ------------------------------------------------------------------- stubs
\* alert(...) only
handleAddConfig ==
  /\ issued' = {}
  /\ lastOp' = [NoOp EXCEPT !.op = "handleAddConfig"]
  /\ UNCHANGED <<view, requests>>

\* (variant: the stub drops the selection it names)
handleDeleteConfig_Clears ==
  /\ issued' = {}
  /\ lastOp' = [NoOp EXCEPT !.op = "handleDeleteConfig"]
  /\ selectedConfigName' = NULL
  /\ UNCHANGED <<tabValue, configNames, configContent, loading, snackbarOpen,
                 snackbarSeverity, isEditing, requests>>

\* alert(...) only, in the branch with a selection and in the branch without
\* one (the button that calls it is disabled while nothing is selected)
handleDeleteConfig ==
  /\ issued' = {}
  /\ lastOp' = [NoOp EXCEPT !.op = "handleDeleteConfig"]
  /\ UNCHANGED <<view, requests>>

\* -------------------------------------------------------------------- Next
Next ==
  \/ \E newValue \in TabIndexes : handleTabChange(newValue)
  \/ \E name \in Names : handleConfigNameClick(name)
  \/ \E content \in SaveContents : handleSaveConfig(content)
  \/ \E text \in Contents : EditorOnChange(text)
  \/ \E value \in BOOLEAN : EditorSetIsEditing(value)
  \/ \E r \in BagToSet(requests), ok \in BOOLEAN, list \in NameLists :
       SettleNames(r, ok, list)
  \/ \E r \in BagToSet(requests), ok \in BOOLEAN, data \in JsonValues :
       SettleContent(r, ok, data)
  \/ \E r \in BagToSet(requests), ok \in BOOLEAN : SettleSave(r, ok)
  \/ \E reason \in CloseReasons : handleSnackbarClose(reason)
  \/ handleAddConfig
  \/ handleDeleteConfig

Spec == Init /\ [][Next]_vars

\* every response eventually arrives
FairSpec ==
  Spec /\ WF_vars(\E r \in BagToSet(requests), ok \in BOOLEAN :
                    \/ \E list \in NameLists : SettleNames(r, ok, list)
                    \/ \E data \in JsonValues : SettleContent(r, ok, data)
                    \/ SettleSave(r, ok))

TypeOK ==
  /\ tabValue \in TabIndexes
  /\ configNames \in NameLists
  /\ selectedConfigName \in Names \cup {NULL}
  /\ configContent \in Contents
  /\ loading \in BOOLEAN
  /\ snackbarOpen \in BOOLEAN
  /\ snackbarSeverity \in {"success", "error"}
  /\ isEditing \in BOOLEAN

\* ================================================================== claims

\* C1 (as stated): whenever a names request settles successfully with a
\* non-empty list L, configNames is L, selectedConfigName is L[0], and the
\* step issues a content request for L[0].
C1_ContentRequestedOnEveryNamesSuccess ==
  (lastOp.op = "SettleNames" /\ lastOp.ok /\ Len(lastOp.list) > 0)
    => /\ configNames = lastOp.list
       /\ selectedConfigName = lastOp.list[1]
       /\ issued = {ContentRequest(currentResourceType, lastOp.list[1])}

\* C1 (what the code does): whenever a names request settles successfully
\* with a non-empty list L, configNames becomes L and selectedConfigName
\* becomes L[0]; a content request for L[0], under the active category, is
\* issued exactly when selectedConfigName was not already L[0], which only a
\* response or a click that overlapped this request can have caused.
C1_ContentRequestedWhenSelectionChanges ==
  [][ (lastOp'.op = "SettleNames" /\ lastOp'.ok /\ Len(lastOp'.list) > 0)
        => /\ configNames' = lastOp'.list
           /\ selectedConfigName' = lastOp'.list[1]
           /\ issued' =
                IF selectedConfigName # lastOp'.list[1]
                  THEN {ContentRequest(resourceTypes[tabValue'],
                                       lastOp'.list[1])}
                  ELSE {}
           /\ \A q \in issued' : BagIn(q, requests') ]_vars

C3_LoadingIffOutstanding == loading <=> InFlight > 0

\* C4 (as stated): whenever a names response has left a name selected, that
\* name comes from a list the backend returned for the active category, not
\* for another one.
C4_SelectionLoadedForActiveCategory ==
  (lastOp.op = "SettleNames" /\ selectedConfigName # NULL)
    => /\ selectedConfigName \in Range(lastOp.list)
       /\ lastOp.req.resourceType = currentResourceType

\* the number of copies of request q in flight
Copies(q, bag) == IF BagIn(q, bag) THEN CopiesIn(q, bag) ELSE 0

\* C5: no step takes a request out of flight except the arrival of its own
\* response, and every response that arrives is applied, whatever selection
\* its request was issued for: a names response replaces configNames and the
\* selection, a content response replaces configContent.
C5_LastSettlingResponseWins ==
  [][ /\ \A q \in BagToSet(requests) :
           Copies(q, requests') < Copies(q, requests)
             => /\ lastOp'.op \in {"SettleNames", "SettleContent",
                                   "SettleSave"}
                /\ lastOp'.req = q
                /\ Copies(q, requests') = Copies(q, requests) - 1
      /\ (lastOp'.op = "SettleNames" /\ lastOp'.ok)
           => /\ configNames' = lastOp'.list
              /\ selectedConfigName' =
                   IF lastOp'.list = << >> THEN NULL ELSE lastOp'.list[1]
      /\ (lastOp'.op = "SettleContent" /\ lastOp'.ok)
           => configContent' = Stringify(lastOp'.data) ]_vars

\* the response of a names request issued for an abandoned category has
\* replaced the list and the selection shown for the active category
C5_Witness ==
  /\ lastOp.op = "SettleNames" /\ lastOp.ok
  /\ lastOp.req.resourceType # currentResourceType
  /\ lastOp.list # << >>
  /\ configNames = lastOp.list
  /\ selectedConfigName = lastOp.list[1]

\* C6: whenever a names request settles with a failure, configNames is
\* empty, selectedConfigName is null, the snackbar is open with severity
\* error, and the step issues no request.
C6_NamesFailureResets ==
  (lastOp.op = "SettleNames" /\ ~lastOp.ok)
    => /\ configNames = << >>
       /\ selectedConfigName = NULL
       /\ snackbarOpen /\ snackbarSeverity = "error"
       /\ issued = {}

\* a names request has failed and nothing is in flight any more
C6_Witness ==
  /\ lastOp.op = "SettleNames" /\ ~lastOp.ok
  /\ snackbarOpen /\ snackbarSeverity = "error"
  /\ InFlight = 0

\* C7 (as stated): whenever a names request settles successfully with an
\* empty list, selectedConfigName is null, configContent is the empty string
\* and the step issues no content request.
C7_EmptyListClearsContent ==
  (lastOp.op = "SettleNames" /\ lastOp.ok /\ lastOp.list = << >>)
    => /\ selectedConfigName = NULL
       /\ configContent = ""
       /\ issued = {}

\* C8: when a save request settles successfully, isEditing becomes false and
\* the snackbar is open with severity success; when it settles with a
\* failure, the snackbar is open with severity error and isEditing keeps its
\* value.
C8_SaveOutcome ==
  [][ lastOp'.op = "SettleSave"
        => /\ snackbarOpen'
           /\ IF lastOp'.ok
                THEN isEditing' = FALSE /\ snackbarSeverity' = "success"
                ELSE isEditing' = isEditing /\ snackbarSeverity' = "error"
    ]_vars

\* a save has failed and the editor is still in edit mode
C8_Witness ==
  /\ lastOp.op = "SettleSave" /\ ~lastOp.ok
  /\ isEditing
  /\ snackbarOpen /\ snackbarSeverity = "error"

\* C9: a save invoked while nothing is selected issues no request and leaves
\* loading and every other field of the view unchanged.
C9_SaveWithoutSelectionIsNoOp ==
  [][ (lastOp'.op = "handleSaveConfig" /\ selectedConfigName = NULL)
        => /\ issued' = {}
           /\ requests' = requests
           /\ view' = view ]_vars

\* a save was invoked with nothing selected while a request was loading
C9_Witness ==
  /\ lastOp.op = "handleSaveConfig"
  /\ selectedConfigName = NULL
  /\ loading
  /\ isEditing

\* C10: a name click sets isEditing to false in the same step; a click on a
\* name other than the selected one issues the content request for it, and
\* whenever a content request settles, configContent is replaced by the
\* response's document, or by the empty string on failure.
C10_NameClickDiscardsEdits ==
  [][ /\ lastOp'.op = "handleConfigNameClick"
           => /\ isEditing' = FALSE
              /\ selectedConfigName' # selectedConfigName
                   => /\ issued' = {ContentRequest(currentResourceType,
                                                   selectedConfigName')}
                      /\ BagIn(ContentRequest(currentResourceType,
                                              selectedConfigName'),
                               requests')
      /\ lastOp'.op = "SettleContent"
           => configContent' =
                IF lastOp'.ok THEN Stringify(lastOp'.data) ELSE "" ]_vars

\* another name was clicked in edit mode over a text that is not a fetched
\* document: edit mode is off and the content request is in flight
C10_Witness ==
  /\ lastOp.op = "handleConfigNameClick" /\ lastOp.wasEditing
  /\ ~isEditing
  /\ configContent = "{"
  /\ issued = {ContentRequest(currentResourceType, selectedConfigName)}

\* C11: a save of a text that is not JSON, with a name selected, hands no
\* request to apiClient and ends as a failed post does: the snackbar is open
\* with severity error, isEditing keeps its value and loading is false.
C11_InvalidJsonFailsWithoutPost ==
  [][ (lastOp'.op = "handleSaveConfig" /\ selectedConfigName # NULL
         /\ ~lastOp'.ok)
        => /\ issued' = {}
           /\ requests' = requests
           /\ snackbarOpen' /\ snackbarSeverity' = "error"
           /\ isEditing' = isEditing
           /\ loading' = FALSE
           /\ UNCHANGED <<tabValue, configNames, selectedConfigName,
                          configContent>> ]_vars

\* a text that is not JSON was saved in edit mode: the error is shown, edit
\* mode is still on, and nothing was sent
C11_Witness ==
  /\ lastOp.op = "handleSaveConfig" /\ ~lastOp.ok
  /\ selectedConfigName # NULL
  /\ isEditing
  /\ snackbarOpen /\ snackbarSeverity = "error"
  /\ ~loading
  /\ InFlight = 0

\* C12: whenever a content request settles with a failure, configContent
\* becomes the empty string, the snackbar is open with severity error and
\* loading is false; selectedConfigName and configNames keep their values.
C12_ContentFailureClears ==
  [][ (lastOp'.op = "SettleContent" /\ ~lastOp'.ok)
        => /\ configContent' = ""
           /\ snackbarOpen' /\ snackbarSeverity' = "error"
           /\ loading' = FALSE
           /\ selectedConfigName' = selectedConfigName
           /\ configNames' = configNames ]_vars

\* the content request of the selected name has failed: the name stays
\* selected in its list over an empty content
C12_Witness ==
  /\ lastOp.op = "SettleContent" /\ ~lastOp.ok
  /\ lastOp.req = ContentRequest(currentResourceType, selectedConfigName)
  /\ selectedConfigName \in Range(configNames)
  /\ configContent = ""
  /\ snackbarOpen /\ snackbarSeverity = "error"
  /\ ~loading

\* C13: the loading flag is released on every exit path: after the response
\* of a names, content or save request has been handled, and after a save
\* whose text failed to parse, loading is false unless the same batch handed
\* a new request to apiClient (the content request of the auto-selected
\* name); hence loading is false in every state with no request in flight,
\* which is the state reached once every issued request has settled.
C13_LoadingReleased ==
  /\ InFlight = 0 => ~loading
  /\ ( /\ \/ lastOp.op \in {"SettleNames", "SettleContent", "SettleSave"}
          \/ lastOp.op = "handleSaveConfig" /\ ~lastOp.ok
       /\ issued = {} )
       => ~loading

\* the cascade has run to its end: the content response of the auto-selected
\* name has arrived, nothing is in flight and the flag is released
C13_Witness ==
  /\ lastOp.op = "SettleContent" /\ lastOp.ok
  /\ selectedConfigName # NULL
  /\ InFlight = 0
  /\ ~loading

\* C14: a close request with reason 'clickaway' leaves the open snackbar open
\* and changes nothing else; a close request of the close control, of the
\* auto-hide timeout or of the escape key closes it, and changes nothing else.
C14_ClickawayKeepsOpen ==
  [][ lastOp'.op = "handleSnackbarClose"
        => /\ snackbarOpen
           /\ snackbarOpen' = (lastOp'.reason = "clickaway")
           /\ lastOp'.reason \in {"closeButton", "timeout"} => ~snackbarOpen'
           /\ UNCHANGED <<tabValue, configNames, selectedConfigName,
                          configContent, loading, snackbarSeverity, isEditing,
                          requests>>
           /\ issued' = {} ]_vars

\* an error snackbar has survived a click away from it
C14_Witness ==
  /\ lastOp.op = "handleSnackbarClose" /\ lastOp.reason = "clickaway"
  /\ snackbarOpen /\ snackbarSeverity = "error"

\* C15: the add and the delete stub, with a name selected or with none,
\* change no state cell of the component and hand no request to apiClient.
C15_StubsChangeNothing ==
  [][ lastOp'.op \in {"handleAddConfig", "handleDeleteConfig"}
        => /\ view' = view
           /\ requests' = requests
           /\ issued' = {} ]_vars

\* the delete stub has run with a name selected and while a request was
\* outstanding, and the selection is still there
C15_Witness ==
  /\ lastOp.op = "handleDeleteConfig"
  /\ selectedConfigName # NULL
  /\ InFlight > 0

\* C16: for each of the five category keys a content request addresses
\* /api/v1/client/{s}?name={name}, s being the key without its last
\* character (one character shorter, the rest kept), while a names request
\* and a save request carry the key unmodified.
C16_ContentPathIsSingular ==
  LET singular == [ClassPlans |-> "ClassPlan",
                   TimeLayouts |-> "TimeLayout",
                   SubjectsSource |-> "SubjectsSourc",
                   DefaultSettingsSource |-> "DefaultSettingsSourc",
                   PolicySource |-> "PolicySourc"]
  IN  /\ \A i \in TabIndexes :
           LET key == resourceTypes[i]
           IN  /\ key \in DOMAIN singular
               /\ Len(singular[key]) = Len(key) - 1
               /\ singular[key] = SubSeq(key, 1, Len(singular[key]))
               /\ ContentRequest(key, "a").url
                    = "/api/v1/client/" \o singular[key] \o "?name=a"
      /\ \A q \in issued \cup BagToSet(requests) :
           /\ q.resourceType \in DOMAIN singular
           /\ q.kind = "content"
                => q.url = "/api/v1/client/" \o singular[q.resourceType]
                             \o "?name=" \o q.name
           /\ q.kind = "names"
                => q.url = "/api/v1/panel/" \o q.resourceType
           /\ q.kind = "save"
                => q.url = "/api/resources/" \o q.resourceType
                             \o "/" \o q.name

\* a content request for a key that does not end in a plural s is in flight
\* together with a save request
C16_Witness ==
  /\ \E q \in BagToSet(requests) :
       q.url = "/api/v1/client/DefaultSettingsSourc?name=b"
  /\ \E q \in BagToSet(requests) :
       q.kind = "save"

\* C17: a selected name is always one of the names of the list held at that
\* moment, whichever category the list was fetched for.
C17_SelectionIsListed ==
  selectedConfigName # NULL => selectedConfigName \in Range(configNames)

\* the second name of a list of two has been clicked
C17_Witness ==
  /\ lastOp.op = "handleConfigNameClick"
  /\ Len(configNames) = 2
  /\ selectedConfigName = configNames[2]
  /\ configNames[1] # configNames[2]

C19_SaveKeepsContentAndAddress ==
  [][ /\ lastOp'.op \in {"handleSaveConfig", "SettleSave"}
         => UNCHANGED <<configContent, selectedConfigName, configNames,
                        tabValue>>
      /\ (lastOp'.op = "handleSaveConfig" /\ issued' # {})
         => /\ selectedConfigName # NULL
            /\ \E q \in issued' :
                 /\ issued' = {q}
                 /\ q.kind = "save"
                 /\ q.url = "/api/resources/" \o resourceTypes[tabValue]
                              \o "/" \o selectedConfigName
                 /\ requests' = requests (+) SetToBag({q})
      /\ lastOp'.op = "SettleSave"
         => /\ BagIn(lastOp'.req, requests)
            /\ lastOp'.req.kind = "save"
            /\ requests' = requests (-) SetToBag({lastOp'.req})
      /\ \A q \in BagToSet(requests) :
           (q.kind = "save" /\ lastOp'.req # q) => BagIn(q, requests') ]_vars

\* the response to a post arrives, as a failure, after the user has moved to
\* another category and another name has been selected there; the text is
\* the one that was there before the response
C19_Witness ==
  /\ lastOp.op = "SettleSave" /\ ~lastOp.ok
  /\ lastOp.req.resourceType # currentResourceType
  /\ selectedConfigName # NULL
  /\ selectedConfigName # lastOp.req.name
  /\ lastOp.req.url = SaveUrl(lastOp.req.resourceType, lastOp.req.name)

\* C20: a name is clicked only in a state where loading is false, so no
\* name click and no content request that a name click causes occurs while
\* loading is true; a click on any other tab is possible in every state,
\* also while requests are outstanding (as long as the bound on the requests
\* in flight leaves room for the names request it starts).
C20_NoNameClickWhileLoading ==
  /\ [][ lastOp'.op = "handleConfigNameClick"
           => /\ ~loading
              /\ lastOp'.req = NoRequest
              /\ issued' \subseteq
                   {ContentRequest(currentResourceType, selectedConfigName')} ]_vars
  /\ [](InFlight < MaxInFlight
          => \A newValue \in TabIndexes \ {tabValue} :
               ENABLED handleTabChange(newValue))

\* a tab has been clicked while the request of an earlier tab change was
\* still outstanding and the list was hidden
C20_Witness ==
  /\ lastOp.op = "handleTabChange"
  /\ loading
  /\ InFlight = 2
  /\ \A q \in BagToSet(requests) : q.kind = "names"

====
